---- MODULE Spec2Model ----
(***************************************************************************)
(* State-machine model of the onnx-cpu ML model service                    *)
(* (src/onnx_cpu.go, lines 1-420, and src/cmd/module/main.go).             *)
(*                                                                         *)
(* One process hosts the module (realMain), the process-wide onnxruntime   *)
(* environment, and the adapters (onnxCPU values) that the registered      *)
(* constructor builds from the deployed configuration.  The native         *)
(* library is modelled by its observable contract: handles that are live   *)
(* or released, and calls that succeed or report an error.                 *)
(***************************************************************************)
EXTENDS Integers, Sequences, FiniteSets, TLC

VARIABLES
    platform,        \* runtime.GOOS-runtime.GOARCH of the process
    model,           \* what ort reads from the file at cfg.ModelPath
    modelPath,       \* cfg.ModelPath
    labelPath,       \* cfg.LabelPath
    mainPc,          \* position of realMain
    deferred,        \* realMain's deferred calls, in registration order
    envInitialized,  \* ort.IsInitialized()
    adapters,        \* adapter id -> onnxCPU value, or NoAdapter
    ctorPc,          \* adapter id -> position of its construction in initModel
    running,         \* adapter id -> Infer calls that are inside Session.Run
    served,          \* adapter id -> an Infer call on it has returned a result
    liveTensors,     \* native tensor handles created and not destroyed
    last             \* the call that returned last: its arguments and results

vars == <<platform, model, modelPath, labelPath, mainPc, deferred, envInitialized,
          adapters, ctorPc, running, served, liveTensors, last>>

-----------------------------------------------------------------------------
(* Bounds of the model *)

\* most tensors on one side of a model file
MaxTensors == 2
\* most calls of the native session destroy on one adapter
MaxClose == 2
\* Infer is not started once this many tensor handles have leaked
MaxLive == 2
\* most characters of a model_path
MaxPathLen == 6
\* most Infer calls in progress on one adapter at a time
MaxCalls == 2

-----------------------------------------------------------------------------
(* Values *)

\* a Go value that may be nil: Nil, or Some(v) with The(Some(v)) = v
Nil == <<>>
Some(v) == <<v>>
The(p) == p[1]
NoAdapter == Nil
AdapterIds == {"A", "B"}

\* ort.TensorElementDataType: the zero value, the two supported, one other
Undefined == "undefined"
Float == "float32"
Uint8 == "uint8"
Int64 == "int64"
DataTypes == {Float, Uint8, Int64}
\* element types of the arrays a caller puts in ml.Tensors
CallerTypes == {Float, Uint8}

Min(a, b) == IF a < b THEN a ELSE b

\* An int64 is written I64(k, r) and stands for k * 2^31 + r, with r small and
\* r >= 0 unless k = 0: TLC's integers are 32 bits wide, the program's
\* dimensions are 64.
I64(k, r) == [hi |-> k, lo |-> r]

\* declared dimensions of the i-th tensor of a side, per kind of model file
DimVariants == {"static", "dynamic", "huge"}
DimsOf(v, i) ==
    CASE v = "static"  -> <<I64(0, 1), I64(0, 2 + i), I64(0, 224)>>
      [] v = "dynamic" -> <<I64(0, -1), I64(0, i)>>
      [] v = "huge"    -> <<I64(0, i), I64(1, 0)>>

TypeSeqs == UNION {[1..n -> DataTypes] : n \in 0..MaxTensors}

\* []ort.InputOutputInfo of one side: names are unique within the side
MkInfo(side, types, v) ==
    [i \in 1..Len(types) |->
        [Name |-> <<side, i>>, DataType |-> types[i], Dimensions |-> DimsOf(v, i)]]

ModelFiles ==
    {[inputs |-> MkInfo("in", its, v), outputs |-> MkInfo("out", ots, v)] :
        its \in TypeSeqs, ots \in TypeSeqs, v \in DimVariants}

Platforms == {"linux-amd64", "android-386", "linux-riscv64"}
LabelPaths == {"", "/path/to/labels.txt"}

-----------------------------------------------------------------------------
(* Config.Validate, src/onnx_cpu.go 45-62 *)

\* a model_path is the sequence of its characters
PathChars == {"/", ".", "o", "n", "x"}
ModelPaths == UNION {[1..n -> PathChars] : n \in 0..MaxPathLen}
DotOnnx == <<".", "o", "n", "n", "x">>
\* the model_path of a deployment that passed validation
DeployedPath == <<"x">> \o DotOnnx

\* path.Ext: from the end of the path back to the last slash, the suffix
\* that starts at the first dot met; empty when there is none
RECURSIVE ExtFrom(_, _)
ExtFrom(path, i) ==
    IF i < 1 \/ path[i] = "/" THEN <<>>
    ELSE IF path[i] = "." THEN SubSeq(path, i, Len(path))
    ELSE ExtFrom(path, i - 1)
Ext(path) == ExtFrom(path, Len(path))

\* mutant of Validate: the check for an empty model_path is left out
Validate_noRequiredCheck(cfg) ==
    IF Ext(cfg.ModelPath) # DotOnnx THEN "BadExtension" ELSE "none"

\* Validate, 52-62: the error it returns
Validate(cfg) ==
    IF cfg.ModelPath = <<>> THEN "FieldRequired"
    ELSE IF Ext(cfg.ModelPath) # DotOnnx THEN "BadExtension"
    ELSE "none"

-----------------------------------------------------------------------------
(* getSharedLibPath, src/onnx_cpu.go 355-371 *)

SharedLibs ==
    [p \in {"windows-amd64", "darwin-arm64", "linux-arm64", "linux-amd64",
            "android-386", "android-arm64"} |->
        CASE p = "windows-amd64" -> "./third_party/onnxruntime.dll"
          [] p = "darwin-arm64"  -> "./third_party/onnxruntime_arm64.dylib"
          [] p = "linux-arm64"   -> "./third_party/onnxruntime_arm64.so"
          [] p = "linux-amd64"   -> "./third_party/onnxruntime.so"
          [] p = "android-386"   -> "./third_party/onnx-android-x86.so"
          [] p = "android-arm64" -> "./third_party/onnx-android-arm64-v8a.so"]

\* mutant of getSharedLibPath: a platform outside the table gets the
\* library of linux-amd64
getSharedLibPath_fallback(p) ==
    IF p \in DOMAIN SharedLibs
    THEN [path |-> SharedLibs[p], err |-> "none"]
    ELSE [path |-> SharedLibs["linux-amd64"], err |-> "none"]

getSharedLibPath(p) ==
    IF p \in DOMAIN SharedLibs
    THEN [path |-> SharedLibs[p], err |-> "none"]
    ELSE [path |-> "", err |-> "UnsupportedPlatform"]

-----------------------------------------------------------------------------
(* createMetadata, src/onnx_cpu.go 373-420 *)

\* width of Go's int on the platform: 32 bits on GOARCH 386, 64 otherwise
IntBits(p) == IF p = "android-386" THEN 32 ELSE 64

\* int(v) for an int64 v = k * 2^31 + r: all of it in 64 bits; in 32 bits the
\* low 32 bits, two's complement (an odd k leaves the sign bit set)
ToInt(v, p) ==
    IF IntBits(p) = 64 THEN v
    ELSE IF v.hi % 2 = 0 THEN I64(0, v.lo) ELSE I64(-1, v.lo)

convertInt64SliceToInt(sliceInt64, p) ==
    [i \in 1..Len(sliceInt64) |-> ToInt(sliceInt64[i], p)]

\* DataTypeMap, with the fallback in.DataType.String() of createMetadata
DataTypeMap(t) ==
    CASE t = Float -> "float32"
      [] t = Uint8 -> "uint8"
      [] OTHER     -> <<"ONNX_TENSOR_ELEMENT_DATA_TYPE", t>>

inputTensorInfo(in, p) ==
    [Name |-> in.Name, DataType |-> DataTypeMap(in.DataType),
     Shape |-> convertInt64SliceToInt(in.Dimensions, p), Extra |-> Nil]

\* mutant of outputTensorInfo: an empty label path is not attached
outputTensorInfo_skipEmptyLabel(out, label, p) ==
    [Name |-> out.Name, DataType |-> DataTypeMap(out.DataType),
     Shape |-> convertInt64SliceToInt(out.Dimensions, p),
     Extra |-> IF label = "" THEN Nil ELSE [labels |-> label]]

outputTensorInfo(out, label, p) ==
    [Name |-> out.Name, DataType |-> DataTypeMap(out.DataType),
     Shape |-> convertInt64SliceToInt(out.Dimensions, p),
     Extra |-> [labels |-> label]]

createMetadata(inputInfo, outputInfo, label, p) ==
    [ModelName |-> "onnx_model",
     Inputs  |-> [i \in 1..Len(inputInfo) |-> inputTensorInfo(inputInfo[i], p)],
     Outputs |-> [i \in 1..Len(outputInfo) |-> outputTensorInfo(outputInfo[i], label, p)]]

-----------------------------------------------------------------------------
(* initModel, src/onnx_cpu.go 85-158 *)

\* the native calls of initModel that can report an error
CtorFailures == {"none", "InitializeEnvironment", "GetInputOutputInfo",
                 "NewSessionOptions", "NewDynamicAdvancedSession"}

\* line 112: the check of the first input's element type
inputTypeRejected(inputType) ==
    inputType # Float /\ inputType # Uint8

\* line 127: the check of the first output's element type, as written
outputTypeRejected(outputType, inputType) ==
    outputType # Float /\ inputType # Uint8

\* mutant of mixedTypes: the loop looks at the first tensor only
mixedTypes_firstOnly(info, type) ==
    \E i \in 1..Min(1, Len(info)) : info[i].DataType # type

\* lines 116-121 and 131-136: some tensor differs from the side's type
mixedTypes(info, type) ==
    \E i \in 1..Len(info) : info[i].DataType # type

\* mutant of namesOf: the names are collected last tensor first
namesOf_lastFirst(info) == [i \in 1..Len(info) |-> info[Len(info) + 1 - i].Name]

\* inputNames and outputNames, appended in the loops at 116-121 and 131-136
namesOf(info) == [i \in 1..Len(info) |-> info[i].Name]

\* initModel returning an error: no adapter, and `options` session-options
\* handles created by ort.NewSessionOptions and not destroyed
ctorErrorWith(e, env, options) ==
    [err |-> e, ocpu |-> NoAdapter, env |-> env, options |-> options]
ctorError(e, env) == ctorErrorWith(e, env, 0)

\* mutant of needsInitialize: the environment is initialized at every
\* construction
needsInitialize_always(envInit) == TRUE

\* line 92: ort.InitializeEnvironment is called if !ort.IsInitialized()
needsInitialize(envInit) == ~envInit

\* ort.InitializeEnvironment reports an error when the environment is
\* initialized already, and may report one of its own when it is not
initModel(p, file, label, envInit, fail) ==
    LET lib == getSharedLibPath(p) IN
    IF lib.err # "none" THEN ctorError(lib.err, envInit)
    ELSE IF needsInitialize(envInit) /\ envInit
    THEN ctorError("EnvironmentAlreadyInitialized", TRUE)
    ELSE IF needsInitialize(envInit) /\ fail = "InitializeEnvironment"
    THEN ctorError("InitializeEnvironment", FALSE)
    ELSE IF fail = "GetInputOutputInfo" THEN ctorError("GetInputOutputInfo", TRUE)
    ELSE
    LET inputInfo  == file.inputs
        outputInfo == file.outputs
        metadata   == createMetadata(inputInfo, outputInfo, label, p)
        inputType  == IF Len(inputInfo) # 0 THEN inputInfo[1].DataType ELSE Undefined
        outputType == IF Len(outputInfo) # 0 THEN outputInfo[1].DataType ELSE Undefined
    IN
    IF Len(inputInfo) # 0 /\ inputTypeRejected(inputType)
    THEN ctorError("UnsupportedInputType", TRUE)
    ELSE IF mixedTypes(inputInfo, inputType)
    THEN ctorError("MixedInputTypes", TRUE)
    ELSE IF Len(outputInfo) # 0 /\ outputTypeRejected(outputType, inputType)
    THEN ctorError("UnsupportedOutputType", TRUE)
    ELSE IF mixedTypes(outputInfo, outputType)
    THEN ctorError("MixedOutputTypes", TRUE)
    ELSE IF fail = "NewSessionOptions" THEN ctorError("NewSessionOptions", TRUE)
    ELSE IF fail = "NewDynamicAdvancedSession"
    THEN ctorErrorWith("NewDynamicAdvancedSession", TRUE, 1)
    ELSE
    [err  |-> "none",
     env  |-> TRUE,
     options |-> 1,
     ocpu |-> Some(
              [session |-> [Session    |-> [live |-> TRUE, destroyCalls |-> 0,
                                            inputNames |-> namesOf(inputInfo),
                                            outputNames |-> namesOf(outputInfo),
                                            outputTypes |-> [i \in 1..Len(outputInfo) |->
                                                                outputInfo[i].DataType]],
                            InputInfo  |-> inputInfo,
                            OutputInfo |-> outputInfo,
                            InputType  |-> inputType,
                            OutputType |-> outputType],
               metadata |-> metadata])]

-----------------------------------------------------------------------------
(* Infer and its helpers, src/onnx_cpu.go 179-344 *)

\* the ml.Tensors a caller can pass for the given input contracts: any of
\* the contract names present or absent, each array of either element type
TensorMaps(info) ==
    UNION {[S -> CallerTypes] : S \in SUBSET {info[i].Name : i \in 1..Len(info)}}

\* mutant of mlTensorsToOnnxTensors: the element type of the array is not
\* checked, the array is wrapped as it is
RECURSIVE wrapUnchecked(_, _, _, _, _, _)
wrapUnchecked(tensors, inputs, info, T, failAt, i) ==
    IF i > Len(info)
    THEN [err |-> "none", name |-> Nil, inputs |-> inputs, created |-> Len(inputs)]
    ELSE
    LET inf == info[i] IN
    IF inf.Name \notin DOMAIN tensors
    THEN [err |-> "InputRequired", name |-> inf.Name, inputs |-> Nil,
          created |-> Len(inputs)]
    ELSE IF failAt = i
    THEN [err |-> "NewTensor", name |-> inf.Name, inputs |-> Nil,
          created |-> Len(inputs)]
    ELSE wrapUnchecked(tensors, Append(inputs, [of |-> inf.Name, DataType |-> T]),
                       info, T, failAt, i + 1)

mlTensorsToOnnxTensors_noTypeCheck(tensors, inputs, info, T, failAt) ==
    wrapUnchecked(tensors, inputs, info, T, failAt, 1)

\* mlTensorsToOnnxTensors, 306-328: the loop over info from index i on, with
\* the handles wrapped so far.  failAt is the index at which ort.NewTensor
\* reports an error (0: at none).  A handle records the array it wraps.
RECURSIVE wrapFrom(_, _, _, _, _, _)
wrapFrom(tensors, inputs, info, T, failAt, i) ==
    IF i > Len(info)
    THEN [err |-> "none", name |-> Nil, inputs |-> inputs, created |-> Len(inputs)]
    ELSE
    LET inf == info[i] IN
    IF inf.Name \notin DOMAIN tensors
    THEN [err |-> "InputRequired", name |-> inf.Name, inputs |-> Nil,
          created |-> Len(inputs)]
    ELSE IF tensors[inf.Name] # T
    THEN [err |-> "InputWrongType", name |-> inf.Name, inputs |-> Nil,
          created |-> Len(inputs)]
    ELSE IF failAt = i
    THEN [err |-> "NewTensor", name |-> inf.Name, inputs |-> Nil,
          created |-> Len(inputs)]
    ELSE wrapFrom(tensors, Append(inputs, [of |-> inf.Name, DataType |-> T]),
                  info, T, failAt, i + 1)

mlTensorsToOnnxTensors(tensors, inputs, info, T, failAt) ==
    wrapFrom(tensors, inputs, info, T, failAt, 1)

\* destroyTensors, 295-303: the handles released and their number.  When the
\* native Destroy reports an error the loop returns at the first handle.
destroyTensors(toDestroy, destroyFails) ==
    IF destroyFails /\ Len(toDestroy) > 0
    THEN [err |-> "TensorDestroy", destroyed |-> 0, released |-> <<>>]
    ELSE [err |-> "none", destroyed |-> Len(toDestroy), released |-> toDestroy]

\* toArbitraryTensor, 287-293
toArbitraryTensor(in) == [i \in 1..Len(in) |-> in[i]]

\* mutant of runModel: Session.Run is invoked a second time when it fails
runModel_retriesOnce(session, outputLen, inputs, outputs, N, runOk, envInit) ==
    IF Len(toArbitraryTensor(inputs)) # Len(session.inputNames) \/ ~runOk
    THEN [err |-> "RunFailed", outputs |-> Nil, created |-> 0, native |-> TRUE,
          runs |-> 2]
    ELSE IF ~(envInit /\ session.live)
    THEN [err |-> "RunFailed", outputs |-> Nil, created |-> 0, native |-> FALSE,
          runs |-> 2]
    ELSE
    LET arbOut == [i \in 1..outputLen |->
                      [of |-> i, DataType |-> session.outputTypes[i]]]
    IN  IF \E i \in 1..outputLen : arbOut[i].DataType # N
        THEN [err |-> "OutputConversion", outputs |-> Nil, created |-> outputLen,
              native |-> FALSE, runs |-> 1]
        ELSE [err |-> "none", outputs |-> outputs \o arbOut, created |-> outputLen,
              native |-> FALSE, runs |-> 1]

\* runModel, 270-285.  Session.Run is invoked once (runs).  It reports an
\* error of its own (native), or for want of the environment or of a live
\* session; otherwise it allocates one output handle per declared output, of
\* that output's element type, the i-th for the i-th name the session is
\* bound to.
runModel(session, outputLen, inputs, outputs, N, runOk, envInit) ==
    IF Len(toArbitraryTensor(inputs)) # Len(session.inputNames) \/ ~runOk
    THEN [err |-> "RunFailed", outputs |-> Nil, created |-> 0, native |-> TRUE,
          runs |-> 1]
    ELSE IF ~(envInit /\ session.live)
    THEN [err |-> "RunFailed", outputs |-> Nil, created |-> 0, native |-> FALSE,
          runs |-> 1]
    ELSE
    LET arbOut == [i \in 1..outputLen |->
                      [of |-> i, DataType |-> session.outputTypes[i]]]
    IN  IF \E i \in 1..outputLen : arbOut[i].DataType # N
        THEN [err |-> "OutputConversion", outputs |-> Nil, created |-> outputLen,
              native |-> FALSE, runs |-> 1]
        ELSE [err |-> "none", outputs |-> outputs \o arbOut, created |-> outputLen,
              native |-> FALSE, runs |-> 1]

\* mutant of onnxTensorsToMlTensors: the loop stops one output early
onnxTensorsToMlTensors_dropLast(outputs, info) ==
    [nm \in {info[i].Name : i \in 1..(Len(info) - 1)} |->
        LET i == CHOOSE j \in 1..(Len(info) - 1) : info[j].Name = nm
        IN  [backing |-> outputs[i].of, DataType |-> outputs[i].DataType]]

\* onnxTensorsToMlTensors, 331-344: tensors[inf.Name] is set for each info in
\* order, a later one replacing an earlier one of the same name
onnxTensorsToMlTensors(outputs, info) ==
    [nm \in {info[i].Name : i \in 1..Len(info)} |->
        LET i == CHOOSE j \in 1..Len(info) :
                    /\ info[j].Name = nm
                    /\ \A k \in 1..Len(info) : info[k].Name = nm => k <= j
        IN  [backing |-> outputs[i].of, DataType |-> outputs[i].DataType]]

\* what one Infer call returns and does: runs is the number of Session.Run
\* invocations, runInputs the input handles passed to Session.Run, released
\* the output handles destroyed when the call returns
InferResult(e, nm, res, ran, path, created, destroyed, cleanup, native, runs, runInputs, released) ==
    [err |-> e, name |-> nm, res |-> res, ran |-> ran, path |-> path,
     created |-> created, destroyed |-> destroyed, cleanupFailed |-> cleanup,
     nativeError |-> native, runs |-> runs, runInputs |-> runInputs,
     released |-> released]

\* mutant of Infer: an error of the deferred destroyTensors is returned in
\* place of what the call was returning
Infer_cleanupErrorReturned(ocpu, tensors, failAt, runOk, destroyFails, envInit) ==
    LET ses        == ocpu.session
        lenOutputs == Len(ses.OutputInfo)
        M          == ses.InputType
        N          == ses.OutputType
    IN
    IF M \notin {Float, Uint8}
    THEN InferResult("InputTypeNotImplemented", Nil, Nil, FALSE, Nil, 0, 0, FALSE,
                     FALSE, 0, Nil, {})
    ELSE
    LET w == mlTensorsToOnnxTensors(tensors, <<>>, ses.InputInfo, M, failAt) IN
    IF w.err # "none"
    THEN InferResult(w.err, w.name, Nil, FALSE, Nil, w.created, 0, FALSE,
                     w.err = "NewTensor", 0, Nil, {})
    ELSE
    LET dIn == destroyTensors(w.inputs, destroyFails) IN
    IF N \notin {Float, Uint8}
    THEN InferResult(IF dIn.err # "none" THEN dIn.err ELSE "OutputTypeNotImplemented", Nil, Nil, FALSE, Nil,
                     w.created, dIn.destroyed, dIn.err # "none", FALSE, 0, Nil, {})
    ELSE
    LET r == runModel(ses.Session, lenOutputs, w.inputs, <<>>, N, runOk, envInit) IN
    IF r.err # "none"
    THEN InferResult(IF dIn.err # "none" THEN dIn.err ELSE r.err, Nil, Nil, TRUE, <<M, N>>,
                     w.created + r.created, dIn.destroyed, dIn.err # "none",
                     r.native, r.runs, Some(w.inputs), {})
    ELSE
    LET dOut == destroyTensors(r.outputs, destroyFails) IN
    InferResult(IF dOut.err # "none" THEN dOut.err
                ELSE IF dIn.err # "none" THEN dIn.err ELSE "none", Nil,
                IF dOut.err # "none" \/ dIn.err # "none" THEN Nil
                ELSE Some(onnxTensorsToMlTensors(r.outputs, ses.OutputInfo)),
                TRUE, <<M, N>>, w.created + r.created,
                dIn.destroyed + dOut.destroyed,
                dIn.err # "none" \/ dOut.err # "none", FALSE, r.runs,
                Some(w.inputs),
                {dOut.released[i].of : i \in 1..Len(dOut.released)})

\* Infer, 179-268.  The four cases of the two switches differ in the type
\* parameters only: M is the input element type, N the output element type.
\* The deferred destroyTensors calls run at the return; their errors go to
\* utils.UncheckedError and are not returned.
Infer(ocpu, tensors, failAt, runOk, destroyFails, envInit) ==
    LET ses        == ocpu.session
        lenOutputs == Len(ses.OutputInfo)
        M          == ses.InputType
        N          == ses.OutputType
    IN
    IF M \notin {Float, Uint8}
    THEN InferResult("InputTypeNotImplemented", Nil, Nil, FALSE, Nil, 0, 0, FALSE,
                     FALSE, 0, Nil, {})
    ELSE
    LET w == mlTensorsToOnnxTensors(tensors, <<>>, ses.InputInfo, M, failAt) IN
    IF w.err # "none"
    THEN InferResult(w.err, w.name, Nil, FALSE, Nil, w.created, 0, FALSE,
                     w.err = "NewTensor", 0, Nil, {})
    ELSE
    LET dIn == destroyTensors(w.inputs, destroyFails) IN
    IF N \notin {Float, Uint8}
    THEN InferResult("OutputTypeNotImplemented", Nil, Nil, FALSE, Nil,
                     w.created, dIn.destroyed, dIn.err # "none", FALSE, 0, Nil, {})
    ELSE
    LET r == runModel(ses.Session, lenOutputs, w.inputs, <<>>, N, runOk, envInit) IN
    IF r.err # "none"
    THEN InferResult(r.err, Nil, Nil, TRUE, <<M, N>>,
                     w.created + r.created, dIn.destroyed, dIn.err # "none",
                     r.native, r.runs, Some(w.inputs), {})
    ELSE
    LET dOut == destroyTensors(r.outputs, destroyFails) IN
    InferResult("none", Nil, Some(onnxTensorsToMlTensors(r.outputs, ses.OutputInfo)),
                TRUE, <<M, N>>, w.created + r.created,
                dIn.destroyed + dOut.destroyed,
                dIn.err # "none" \/ dOut.err # "none", FALSE, r.runs,
                Some(w.inputs),
                {dOut.released[i].of : i \in 1..Len(dOut.released)})

-----------------------------------------------------------------------------
(* realMain and onnxClose, src/cmd/module/main.go 19-52 *)

\* the steps of realMain that can return an error
MainFailures == {"NewModuleFromArgs", "AddModelFromRegistry", "Start"}

\* the deferred calls registered when realMain returns after step `failed`
deferredAt(failed) ==
    IF failed = "Start" THEN <<"myMod.Close">> ELSE <<>>

\* deferred calls run last registered, first run
Reverse(s) == [i \in 1..Len(s) |-> s[Len(s) + 1 - i]]
runOrder(defers) == Reverse(defers)

\* onnxClose: the environment is destroyed if it is initialized
onnxClose(envInit, destroyOk) ==
    IF envInit THEN (IF destroyOk THEN FALSE ELSE envInit) ELSE envInit

-----------------------------------------------------------------------------
(* The state machine *)

NoCall ==
    [op |-> "none", id |-> Nil, err |-> "none", name |-> Nil, res |-> Nil,
     ran |-> FALSE, path |-> Nil, created |-> 0, destroyed |-> 0,
     cleanupFailed |-> FALSE, nativeError |-> FALSE, tensors |-> Nil,
     afterRejected |-> FALSE, md |-> Nil, options |-> 0, runs |-> 0,
     runInputs |-> Nil, released |-> {}]

InitAny ==
    /\ platform \in Platforms
    /\ model \in ModelFiles
    /\ modelPath \in ModelPaths
    /\ labelPath \in LabelPaths
    /\ mainPc = "starting"
    /\ deferred = <<>>
    /\ envInitialized = FALSE
    /\ adapters = [a \in AdapterIds |-> NoAdapter]
    /\ ctorPc = [a \in AdapterIds |-> "idle"]
    /\ running = [a \in AdapterIds |-> 0]
    /\ served = [a \in AdapterIds |-> FALSE]
    /\ liveTensors = 0
    /\ last = NoCall

\* realMain reaches <-ctx.Done() with both deferred calls registered; ctx is
\* context.Background(), whose Done channel never delivers
MainServe ==
    /\ mainPc = "starting"
    /\ mainPc' = "serving"
    /\ deferred' = <<"myMod.Close", "onnxClose">>
    /\ UNCHANGED <<running, ctorPc, modelPath, platform, model, labelPath, envInitialized, adapters, served,
                   liveTensors, last>>

\* realMain returns an error from one of its first three steps; the deferred
\* calls registered by then run, and main panics
MainFail ==
    /\ mainPc = "starting"
    /\ \E failed \in MainFailures :
          /\ mainPc' = "exited"
          /\ deferred' = SubSeq(runOrder(deferredAt(failed)), 1, 0)
          /\ last' = [NoCall EXCEPT !.op = "realMain", !.err = failed]
    /\ UNCHANGED <<running, ctorPc, modelPath, platform, model, labelPath, envInitialized, adapters, served,
                   liveTensors>>

\* the registered constructor, 31-41: initModel with the resource's config
Constructor(a) ==
    /\ mainPc = "serving"
    /\ adapters[a] = NoAdapter
    /\ ctorPc[a] = "idle"
    /\ \E fail \in CtorFailures :
          LET r == initModel(platform, model, labelPath, envInitialized, fail) IN
          /\ envInitialized' = r.env
          /\ adapters' = [adapters EXCEPT ![a] = r.ocpu]
          /\ last' = [NoCall EXCEPT !.op = "initModel", !.id = a, !.err = r.err,
                                    !.options = r.options]
    /\ UNCHANGED <<running, ctorPc, modelPath, platform, model, labelPath, mainPc, deferred, served, liveTensors>>

\* the framework validates a configuration: Config.Validate, 52-62
ValidateCall ==
    /\ mainPc = "serving"
    /\ LET cfg == [ModelPath |-> modelPath, LabelPath |-> labelPath] IN
       last' = [NoCall EXCEPT !.op = "Validate", !.err = Validate(cfg)]
    /\ UNCHANGED <<running, ctorPc, modelPath, platform, model, labelPath, mainPc, deferred,
                   envInitialized, adapters, served, liveTensors>>

\* The constructor step by step, for constructions that run at the same
\* time: initModel holds no lock between its steps.
\* Lines 87-92: the platform lookup, then the read of ort.IsInitialized().
ConstructorCheck(a) ==
    /\ mainPc = "serving"
    /\ adapters[a] = NoAdapter
    /\ ctorPc[a] = "idle"
    /\ IF getSharedLibPath(platform).err # "none"
       THEN /\ last' = [NoCall EXCEPT !.op = "initModel", !.id = a,
                           !.err = getSharedLibPath(platform).err]
            /\ UNCHANGED ctorPc
       ELSE /\ ctorPc' = [ctorPc EXCEPT ![a] =
                             IF envInitialized THEN "discover" ELSE "initialize"]
            /\ UNCHANGED last
    /\ UNCHANGED <<running, modelPath, platform, model, labelPath, mainPc, deferred, envInitialized,
                   adapters, served, liveTensors>>

\* Lines 93-96: ort.InitializeEnvironment(), called because IsInitialized()
\* was false when read.  The library reports an error when the environment
\* has been initialized in the meantime.
ConstructorInitialize(a) ==
    /\ ctorPc[a] = "initialize"
    /\ \E ok \in BOOLEAN :
          LET e == IF envInitialized THEN "EnvironmentAlreadyInitialized"
                   ELSE IF ok THEN "none" ELSE "InitializeEnvironment"
          IN  /\ envInitialized' = (envInitialized \/ e = "none")
              /\ ctorPc' = [ctorPc EXCEPT ![a] =
                               IF e = "none" THEN "discover" ELSE "idle"]
              /\ last' = IF e = "none" THEN last
                         ELSE [NoCall EXCEPT !.op = "initModel", !.id = a, !.err = e]
    /\ UNCHANGED <<running, modelPath, platform, model, labelPath, mainPc, deferred, adapters,
                   served, liveTensors>>

\* Lines 98-157: the rest of initModel, the environment being initialized
ConstructorFinish(a) ==
    /\ ctorPc[a] = "discover"
    /\ \E fail \in CtorFailures \ {"InitializeEnvironment"} :
          LET r == initModel(platform, model, labelPath, envInitialized, fail) IN
          /\ adapters' = [adapters EXCEPT ![a] = r.ocpu]
          /\ last' = [NoCall EXCEPT !.op = "initModel", !.id = a, !.err = r.err,
                                    !.options = r.options]
    /\ ctorPc' = [ctorPc EXCEPT ![a] = "idle"]
    /\ UNCHANGED <<running, modelPath, platform, model, labelPath, mainPc, deferred, envInitialized,
                   served, liveTensors>>

\* mutant of Metadata: the document is rebuilt from the input contracts
\* of the session at every call
Metadata_rebuiltFromInputs(a) ==
    /\ mainPc = "serving"
    /\ adapters[a] # NoAdapter
    /\ last' = [NoCall EXCEPT !.op = "Metadata", !.id = a,
                  !.md = Some(createMetadata(The(adapters[a]).session.InputInfo,
                                             <<>>, labelPath, platform))]
    /\ UNCHANGED <<running, ctorPc, modelPath, platform, model, labelPath, mainPc, deferred,
                   envInitialized, adapters, served, liveTensors>>

\* Metadata, 172-174
Metadata(a) ==
    /\ mainPc = "serving"
    /\ adapters[a] # NoAdapter
    /\ last' = [NoCall EXCEPT !.op = "Metadata", !.id = a, !.md = Some(The(adapters[a]).metadata)]
    /\ UNCHANGED <<running, ctorPc, modelPath, platform, model, labelPath, mainPc, deferred, envInitialized,
                   adapters, served, liveTensors>>

\* the distinct ways one Infer call on ocpu can go: the caller's map and what
\* the call returns, over every map and every outcome of the native calls
InferOutcomes(ocpu, envInit) ==
    {[tensors |-> tensors,
      out |-> Infer(ocpu, tensors, failAt, runOk, destroyFails, envInit)] :
        tensors \in TensorMaps(ocpu.session.InputInfo),
        failAt \in 0..Len(ocpu.session.InputInfo),
        runOk \in BOOLEAN, destroyFails \in BOOLEAN}

\* mutant of InferCall: a call that returns an error gives up the session
InferCall_failureReleasesSession(a) ==
    /\ mainPc = "serving"
    /\ adapters[a] # NoAdapter
    /\ liveTensors < MaxLive
    /\ \E c \in InferOutcomes(The(adapters[a]), envInitialized) :
          LET r == c.out IN
          /\ liveTensors' = liveTensors + r.created - r.destroyed
          /\ served' = [served EXCEPT ![a] = @ \/ r.err = "none"]
          /\ last' = [NoCall EXCEPT
                        !.op = "Infer", !.id = a, !.err = r.err, !.name = r.name,
                        !.res = r.res, !.ran = r.ran, !.path = r.path,
                        !.created = r.created, !.destroyed = r.destroyed,
                        !.cleanupFailed = r.cleanupFailed,
                        !.nativeError = r.nativeError, !.tensors = c.tensors,
                        !.runs = r.runs, !.runInputs = r.runInputs,
                        !.released = r.released,
                        !.afterRejected = (/\ last.op = "Infer"
                                           /\ last.id = a
                                           /\ last.err = "InputRequired")]
          /\ adapters' = IF r.err = "none" THEN adapters
                         ELSE [adapters EXCEPT ![a][1].session.Session.live = FALSE]
    /\ UNCHANGED <<running, ctorPc, modelPath, platform, model, labelPath, mainPc, deferred,
                   envInitialized>>

\* mutant of InferCall: every call opens a session of its own in place of
\* the adapter's
InferCall_reopensSession(a) ==
    /\ mainPc = "serving"
    /\ adapters[a] # NoAdapter
    /\ liveTensors < MaxLive
    /\ \E c \in InferOutcomes(The(adapters[a]), envInitialized) :
          LET r == c.out IN
          /\ liveTensors' = liveTensors + r.created - r.destroyed
          /\ served' = [served EXCEPT ![a] = @ \/ r.err = "none"]
          /\ last' = [NoCall EXCEPT
                        !.op = "Infer", !.id = a, !.err = r.err, !.name = r.name,
                        !.res = r.res, !.ran = r.ran, !.path = r.path,
                        !.created = r.created, !.destroyed = r.destroyed,
                        !.cleanupFailed = r.cleanupFailed,
                        !.nativeError = r.nativeError, !.tensors = c.tensors,
                        !.runs = r.runs, !.runInputs = r.runInputs,
                        !.released = r.released,
                        !.afterRejected = (/\ last.op = "Infer"
                                           /\ last.id = a
                                           /\ last.err = "InputRequired")]
    /\ adapters' = [adapters EXCEPT ![a][1].session.Session.live = TRUE,
                                    ![a][1].session.Session.destroyCalls = 0]
    /\ UNCHANGED <<running, ctorPc, modelPath, platform, model, labelPath, mainPc, deferred,
                   envInitialized>>

InferCall(a) ==
    /\ mainPc = "serving"
    /\ adapters[a] # NoAdapter
    /\ liveTensors < MaxLive
    /\ \E c \in InferOutcomes(The(adapters[a]), envInitialized) :
          LET r == c.out IN
          /\ liveTensors' = liveTensors + r.created - r.destroyed
          /\ served' = [served EXCEPT ![a] = @ \/ r.err = "none"]
          /\ last' = [NoCall EXCEPT
                        !.op = "Infer", !.id = a, !.err = r.err, !.name = r.name,
                        !.res = r.res, !.ran = r.ran, !.path = r.path,
                        !.created = r.created, !.destroyed = r.destroyed,
                        !.cleanupFailed = r.cleanupFailed,
                        !.nativeError = r.nativeError, !.tensors = c.tensors,
                        !.runs = r.runs, !.runInputs = r.runInputs,
                        !.released = r.released,
                        !.afterRejected = (/\ last.op = "Infer"
                                           /\ last.id = a
                                           /\ last.err = "InputRequired")]
    /\ UNCHANGED <<running, ctorPc, modelPath, platform, model, labelPath, mainPc, deferred, envInitialized,
                   adapters>>

\* Infer step by step, for calls that run at the same time as other calls on
\* the adapter: neither Infer nor Close takes a lock.
\* Lines 185-198 and 270-273: a call with a valid map has wrapped its inputs
\* and invokes session.Run.
InferEntersRun(a) ==
    /\ mainPc = "serving"
    /\ adapters[a] # NoAdapter
    /\ The(adapters[a]).session.InputType \in {Float, Uint8}
    /\ The(adapters[a]).session.OutputType \in {Float, Uint8}
    /\ running[a] < MaxCalls
    /\ liveTensors < MaxLive
    /\ running' = [running EXCEPT ![a] = @ + 1]
    /\ liveTensors' = liveTensors + Len(The(adapters[a]).session.InputInfo)
    /\ last' = [NoCall EXCEPT !.op = "Session.Run", !.id = a, !.ran = TRUE,
                              !.runs = 1]
    /\ UNCHANGED <<ctorPc, modelPath, platform, model, labelPath, mainPc,
                   deferred, envInitialized, adapters, served>>

\* Lines 273-284 and 199-267: session.Run returns, and the call returns what
\* Infer returns for its map, given the session as it is by then
InferLeavesRun(a) ==
    /\ running[a] > 0
    /\ \E runOk \in BOOLEAN, destroyFails \in BOOLEAN :
          LET ses     == The(adapters[a]).session
              tensors == [nm \in {ses.InputInfo[i].Name : i \in 1..Len(ses.InputInfo)}
                            |-> ses.InputType]
              r       == Infer(The(adapters[a]), tensors, 0, runOk, destroyFails,
                               envInitialized)
          IN  /\ liveTensors' = liveTensors - Len(ses.InputInfo)
                                    + r.created - r.destroyed
              /\ served' = [served EXCEPT ![a] = @ \/ r.err = "none"]
              /\ last' = [NoCall EXCEPT
                            !.op = "Infer", !.id = a, !.err = r.err,
                            !.res = r.res, !.ran = r.ran, !.path = r.path,
                            !.created = r.created, !.destroyed = r.destroyed,
                            !.cleanupFailed = r.cleanupFailed,
                            !.nativeError = r.nativeError, !.tensors = tensors,
                            !.runs = r.runs, !.runInputs = r.runInputs,
                            !.released = r.released]
    /\ running' = [running EXCEPT ![a] = @ - 1]
    /\ UNCHANGED <<ctorPc, modelPath, platform, model, labelPath, mainPc,
                   deferred, envInitialized, adapters>>

\* the native session destroy: released on success, counted either way
sessionDestroy(session, destroyOk) ==
    [session EXCEPT !.live = IF destroyOk THEN FALSE ELSE @,
                    !.destroyCalls = @ + 1]

\* mutant of Close: the environment is torn down with the session
Close_destroysEnvironment(a) ==
    /\ mainPc = "serving"
    /\ adapters[a] # NoAdapter
    /\ The(adapters[a]).session.Session.destroyCalls < MaxClose
    /\ \E destroyOk \in BOOLEAN :
          /\ adapters' = [adapters EXCEPT ![a][1].session.Session =
                              sessionDestroy(@, destroyOk)]
          /\ last' = [NoCall EXCEPT !.op = "Close", !.id = a,
                        !.err = IF destroyOk THEN "none" ELSE "SessionDestroy"]
    /\ envInitialized' = onnxClose(envInitialized, TRUE)
    /\ UNCHANGED <<running, ctorPc, modelPath, platform, model, labelPath, mainPc, deferred, served, liveTensors>>

\* Close, 346-353
Close(a) ==
    /\ mainPc = "serving"
    /\ adapters[a] # NoAdapter
    /\ The(adapters[a]).session.Session.destroyCalls < MaxClose
    /\ \E destroyOk \in BOOLEAN :
          /\ adapters' = [adapters EXCEPT ![a][1].session.Session =
                              sessionDestroy(@, destroyOk)]
          /\ last' = [NoCall EXCEPT !.op = "Close", !.id = a,
                        !.err = IF destroyOk THEN "none" ELSE "SessionDestroy"]
    /\ UNCHANGED <<running, ctorPc, modelPath, platform, model, labelPath, mainPc, deferred, envInitialized,
                   served, liveTensors>>

\* one 64-bit platform, one label path, files with static dimensions
InitStatic ==
    /\ modelPath = DeployedPath
    /\ platform = "linux-amd64"
    /\ labelPath = "/path/to/labels.txt"
    /\ \E its \in TypeSeqs, ots \in TypeSeqs :
          model = [inputs |-> MkInfo("in", its, "static"),
                   outputs |-> MkInfo("out", ots, "static")]
    /\ InitAny

\* the lifecycle of one adapter, over every model file of InitStatic
Init == InitStatic

Next ==
    \/ MainServe
    \/ MainFail
    \/ Constructor("A")
    \/ Metadata("A")
    \/ InferCall("A")
    \/ Close("A")

Spec == Init /\ [][Next]_vars

\* construction and metadata on every platform, label path and kind of file
NextLoad ==
    \/ MainServe
    \/ MainFail
    \/ \E a \in AdapterIds : Constructor(a)
    \/ \E a \in AdapterIds : Metadata(a)
    \/ \E a \in AdapterIds : Close(a)

InitLoad == modelPath = DeployedPath /\ InitAny

SpecLoad == InitLoad /\ [][NextLoad]_vars

\* two adapters of one process, built from a file with one tensor a side
InitPair ==
    /\ InitStatic
    /\ Len(model.inputs) = 1
    /\ Len(model.outputs) = 1

NextPair ==
    \/ MainServe
    \/ MainFail
    \/ \E a \in AdapterIds : Constructor(a)
    \/ \E a \in AdapterIds : Metadata(a)
    \/ \E a \in AdapterIds : InferCall(a)
    \/ \E a \in AdapterIds : Close(a)

SpecPair == InitPair /\ [][NextPair]_vars

\* validation of the configuration, over every model_path and label path
InitValidate ==
    /\ platform = "linux-amd64"
    /\ model = [inputs |-> MkInfo("in", <<Float>>, "static"),
                outputs |-> MkInfo("out", <<Float>>, "static")]
    /\ InitAny

NextValidate ==
    \/ MainServe
    \/ MainFail
    \/ ValidateCall

SpecValidate == InitValidate /\ [][NextValidate]_vars

\* Infer and Close calls of one adapter that run at the same time
NextConc ==
    \/ MainServe
    \/ MainFail
    \/ Constructor("A")
    \/ InferEntersRun("A")
    \/ InferLeavesRun("A")
    \/ Close("A")

SpecConc == InitPair /\ [][NextConc]_vars

\* two adapters of one process built at the same time
NextRace ==
    \/ MainServe
    \/ MainFail
    \/ \E a \in AdapterIds : ConstructorCheck(a)
    \/ \E a \in AdapterIds : ConstructorInitialize(a)
    \/ \E a \in AdapterIds : ConstructorFinish(a)
    \/ \E a \in AdapterIds : Metadata(a)
    \/ \E a \in AdapterIds : Close(a)

SpecRace == InitPair /\ [][NextRace]_vars

-----------------------------------------------------------------------------
(* Vocabulary of the claims *)

Supported == {Float, Uint8}
typesOf(info) == {info[i].DataType : i \in 1..Len(info)}
Mixed(info) == Cardinality(typesOf(info)) > 1
Built(a) == adapters[a] # NoAdapter
sessionOf(a) == The(adapters[a]).session
\* Ready: built, and Close has not been called
Ready(a) == Built(a) /\ sessionOf(a).Session.destroyCalls = 0
Closed(a) == Built(a) /\ sessionOf(a).Session.destroyCalls > 0
\* both bound element types have a case in the switches of Infer
Dispatchable(a) ==
    sessionOf(a).InputType \in Supported /\ sessionOf(a).OutputType \in Supported

\* the contract inputs the caller's map lacks, and those it holds with an
\* element type other than the bound one
Missing(a, tensors) ==
    {i \in 1..Len(sessionOf(a).InputInfo) :
        sessionOf(a).InputInfo[i].Name \notin DOMAIN tensors}
Mistyped(a, tensors) ==
    {i \in 1..Len(sessionOf(a).InputInfo) :
        /\ sessionOf(a).InputInfo[i].Name \in DOMAIN tensors
        /\ tensors[sessionOf(a).InputInfo[i].Name] # sessionOf(a).InputType}
ValidMap(a, tensors) == Missing(a, tensors) = {} /\ Mistyped(a, tensors) = {}
Least(S) == CHOOSE i \in S : \A j \in S : i <= j
indexOfInput(a, nm) ==
    CHOOSE i \in 1..Len(sessionOf(a).InputInfo) : sessionOf(a).InputInfo[i].Name = nm
positionIn(seq, x) == CHOOSE i \in 1..Len(seq) : seq[i] = x

-----------------------------------------------------------------------------
(* C1 *)

\* C1: every native tensor handle an Infer call creates is destroyed before
\* the call returns, on every exit path (the native Destroy itself reporting
\* no error): as many handles are destroyed as were created.  Stated for
\* adapters whose bound element types are both supported.
C1_TensorsReleasedOnEveryPath ==
    (last.op = "Infer" /\ Dispatchable(last.id) /\ ~last.cleanupFailed)
        => last.destroyed = last.created

-----------------------------------------------------------------------------
(* C2 *)

\* C2: an Infer call whose map lacks an input contract name returns an error
\* and no result and does not invoke Session.Run, and the adapter stays
\* Ready: the next Infer call on it with a valid map, the native calls
\* reporting no error, succeeds.  Stated for models that declare outputs.
C2_MissingInputRejectedAdapterStaysReady ==
    (last.op = "Infer" /\ Ready(last.id) /\ Len(model.outputs) > 0) =>
        /\ Missing(last.id, last.tensors) # {} =>
              (last.err # "none" /\ last.res = Nil /\ ~last.ran)
        /\ (/\ last.afterRejected
            /\ ValidMap(last.id, last.tensors)
            /\ ~last.nativeError) => (last.err = "none" /\ last.res # Nil)

-----------------------------------------------------------------------------
(* C3 *)

\* C3: construction fails and returns no adapter whenever some input or
\* output tensor of the model has an element type outside {uint8, float32}.
C3_UnsupportedTypeRejected ==
    (/\ last.op = "initModel"
     /\ ~(typesOf(model.inputs) \cup typesOf(model.outputs) \subseteq Supported))
        => (last.err # "none" /\ ~Built(last.id))

-----------------------------------------------------------------------------
(* C4 *)

\* C4: a model whose inputs all have one supported element type and whose
\* outputs all have one supported element type is never rejected for its
\* types, whichever of the four pairs it is, and an Infer call that reaches
\* Session.Run took the dispatch path of exactly that pair.
C4_FourTypeCombinationsAccepted ==
    /\ (/\ last.op = "initModel"
        /\ \E tin \in Supported, tout \in Supported :
              /\ typesOf(model.inputs) = {tin}
              /\ typesOf(model.outputs) = {tout})
          => last.err \notin {"UnsupportedInputType", "MixedInputTypes",
                              "UnsupportedOutputType", "MixedOutputTypes"}
    /\ (last.op = "Infer" /\ last.ran)
          => (/\ typesOf(model.inputs) = {last.path[1]}
              /\ typesOf(model.outputs) = {last.path[2]})

-----------------------------------------------------------------------------
(* C5 *)

\* C5: construction fails and returns no adapter when the inputs do not all
\* share one element type, and when the outputs do not; no adapter exists
\* for such a model; and the mixed-type error of a side is returned only
\* when that side is mixed, so not because inputs and outputs differ from
\* each other.
C5_MixedTypesRejected ==
    /\ (last.op = "initModel" /\ (Mixed(model.inputs) \/ Mixed(model.outputs)))
          => (last.err # "none" /\ ~Built(last.id))
    /\ (\E a \in AdapterIds : Built(a))
          => (~Mixed(model.inputs) /\ ~Mixed(model.outputs))
    /\ last.err = "MixedInputTypes" => Mixed(model.inputs)
    /\ last.err = "MixedOutputTypes" => Mixed(model.outputs)

\* a model with uniform inputs and mixed outputs has been rejected
C5_Witness ==
    /\ last.op = "initModel"
    /\ last.err = "MixedOutputTypes"
    /\ ~Mixed(model.inputs)
    /\ ~Built(last.id)

-----------------------------------------------------------------------------
(* C6 *)

\* C6: after a successful Infer call the key set of the result map is
\* exactly the set of output names of the adapter's Metadata.
C6_ResultKeysAreMetadataOutputs ==
    (last.op = "Infer" /\ last.err = "none") =>
        /\ last.res # Nil
        /\ DOMAIN The(last.res) =
              LET md == The(adapters[last.id]).metadata
              IN  {md.Outputs[i].Name : i \in 1..Len(md.Outputs)}

\* an Infer call on a model with several outputs has succeeded
C6_Witness ==
    /\ last.op = "Infer"
    /\ last.err = "none"
    /\ Cardinality(DOMAIN The(last.res)) >= 2

-----------------------------------------------------------------------------
(* C7 *)

\* C7: the metadata of a built adapter lists exactly the inputs and the
\* outputs of the model, in discovery order, each with the name and the
\* dimension list of the discovered tensor.
C7_MetadataListsDiscoveredTensors ==
    \A a \in AdapterIds : Built(a) =>
        LET md == The(adapters[a]).metadata IN
        /\ Len(md.Inputs) = Len(model.inputs)
        /\ Len(md.Outputs) = Len(model.outputs)
        /\ \A i \in 1..Len(model.inputs) :
              /\ md.Inputs[i].Name = model.inputs[i].Name
              /\ md.Inputs[i].Shape = model.inputs[i].Dimensions
        /\ \A i \in 1..Len(model.outputs) :
              /\ md.Outputs[i].Name = model.outputs[i].Name
              /\ md.Outputs[i].Shape = model.outputs[i].Dimensions

-----------------------------------------------------------------------------
(* C8 *)

\* C8 as stated: whenever a supplied input array has an element type other
\* than the bound one, Infer returns the wrong-type error naming such a
\* tensor, and neither runs the session nor returns a result.  Stated for
\* adapters whose bound element types are both supported, the native calls
\* reporting no error.
C8_MistypedInputNamed ==
    (/\ last.op = "Infer"
     /\ Dispatchable(last.id)
     /\ ~last.nativeError
     /\ Mistyped(last.id, last.tensors) # {}) =>
        /\ last.err = "InputWrongType"
        /\ last.name # Nil
        /\ indexOfInput(last.id, last.name) \in Mistyped(last.id, last.tensors)
        /\ ~last.ran
        /\ last.res = Nil

\* C8 amended: whenever a supplied input array has an element type other
\* than the bound one, Infer returns an error, runs no session and returns
\* no result; the error names the first input in contract order that is
\* missing or mistyped, with the error of its kind, unless an input before
\* it failed to wrap, which is then the one named.
C8_FirstFaultyInputNamed ==
    (last.op = "Infer" /\ Mistyped(last.id, last.tensors) # {}) =>
        LET k == Least(Missing(last.id, last.tensors)
                       \cup Mistyped(last.id, last.tensors))
        IN  /\ ~last.ran
            /\ last.res = Nil
            /\ last.name # Nil
            /\ \/ /\ last.err = "NewTensor"
                  /\ indexOfInput(last.id, last.name) < k
               \/ /\ indexOfInput(last.id, last.name) = k
                  /\ last.err = IF k \in Mistyped(last.id, last.tensors)
                                THEN "InputWrongType" ELSE "InputRequired"

\* a mistyped second input has been rejected after the first was wrapped
C8_Witness ==
    /\ last.op = "Infer"
    /\ last.err = "InputWrongType"
    /\ last.created >= 1
    /\ indexOfInput(last.id, last.name) \in Mistyped(last.id, last.tensors)

-----------------------------------------------------------------------------
(* C9 *)

\* C9: Close destroys the session of its adapter and leaves the environment
\* alone: the environment is initialized as long as any adapter has been
\* built; and after one adapter was closed, an Infer call with a valid map
\* on another adapter that is Ready and has served before still succeeds
\* (the native calls reporting no error).
C9_CloseLeavesEnvironment ==
    /\ (\E a \in AdapterIds : Built(a)) => envInitialized
    /\ (last.op = "Close" /\ last.err = "none")
          => ~sessionOf(last.id).Session.live
    /\ (/\ last.op = "Infer"
        /\ \E a \in AdapterIds \ {last.id} : Closed(a)
        /\ Ready(last.id)
        /\ served[last.id]
        /\ ValidMap(last.id, last.tensors)
        /\ ~last.nativeError) => (last.err = "none" /\ last.res # Nil)

\* with one adapter closed, an Infer call on the other has succeeded
C9_Witness ==
    /\ last.op = "Infer"
    /\ last.err = "none"
    /\ \E a \in AdapterIds \ {last.id} : Closed(a) /\ ~sessionOf(a).Session.live
    /\ Ready(last.id)
    /\ envInitialized

-----------------------------------------------------------------------------
(* C10 *)

\* C10: at the return of realMain the teardown of the environment
\* (onnxClose) runs after the module was closed (myMod.Close), never before.
C10_EnvironmentTornDownLast ==
    (\E i \in 1..Len(deferred) : deferred[i] = "onnxClose") =>
        /\ \E i \in 1..Len(deferred) : deferred[i] = "myMod.Close"
        /\ positionIn(runOrder(deferred), "myMod.Close")
              < positionIn(runOrder(deferred), "onnxClose")

-----------------------------------------------------------------------------
(* C11 *)

\* C11: when adapters are constructed at the same time, the check and the
\* initialization of the environment are one serialized step: at no time
\* have two constructions both read the environment as uninitialized and
\* not yet returned from InitializeEnvironment, and no construction fails
\* because another one initialized the environment in between.
C11_InitializeIfNeededSerialized ==
    /\ Cardinality({a \in AdapterIds : ctorPc[a] = "initialize"}) <= 1
    /\ ~(last.op = "initModel" /\ last.err = "EnvironmentAlreadyInitialized")

-----------------------------------------------------------------------------
(* C12 *)

\* C12: once Close has been called on an adapter, every Infer call and every
\* Metadata call on it returns an error: neither succeeds outside Ready.
\* Stated for adapters whose session Close has destroyed.
C12_ClosedAdapterRefusesCalls ==
    (/\ last.op \in {"Infer", "Metadata"}
     /\ Closed(last.id)
     /\ ~sessionOf(last.id).Session.live) => last.err # "none"

-----------------------------------------------------------------------------
(* C13 *)

\* C13: over any sequence of Close calls on one adapter the native session
\* is destroyed once: no step invokes the native destroy on an adapter whose
\* session a Close call has already destroyed.
C13_SessionDestroyedOnce ==
    [][\A a \in AdapterIds :
          (Built(a) /\ ~sessionOf(a).Session.live)
              => adapters'[a][1].session.Session.destroyCalls
                    = sessionOf(a).Session.destroyCalls]_vars

-----------------------------------------------------------------------------
(* C14 *)

\* a Close call on the adapter has returned the error of the native destroy,
\* and no Close call on it has succeeded
CloseFailed(a) ==
    Built(a) /\ Closed(a) /\ sessionOf(a).Session.live

\* C14: a Close call whose native destroy fails reports the error, and the
\* adapter is Closed all the same: the destroy is not invoked again, and no
\* later Infer or Metadata call on the adapter succeeds.
C14_FailedCloseStillCloses ==
    /\ (last.op = "Close" /\ CloseFailed(last.id)) => last.err = "SessionDestroy"
    /\ \A a \in AdapterIds :
          CloseFailed(a) => sessionOf(a).Session.destroyCalls = 1
    /\ (last.op \in {"Infer", "Metadata"} /\ CloseFailed(last.id))
          => last.err # "none"

-----------------------------------------------------------------------------
(* C15 *)

\* C15: when a step of construction fails, initModel returns an error and
\* no adapter, and no native handle it created is left undestroyed at its
\* return.
C15_FailedConstructionReleasesAll ==
    (last.op = "initModel" /\ last.err # "none")
        => (~Built(last.id) /\ last.options = 0)

-----------------------------------------------------------------------------
(* C16 *)

\* C16: an Infer call that returns an error leaves the adapter as it was,
\* its session, contracts, bound types and metadata, and leaves the
\* environment as it was: what later calls on the adapter return does not
\* depend on the failed call.  (The steps that end with last.op = "Infer"
\* are the steps of InferCall.)
C16_FailedInferLeavesAdapter ==
    [][(last'.op = "Infer" /\ last'.err # "none")
          => (adapters' = adapters /\ envInitialized' = envInitialized)]_vars

\* an Infer call has succeeded right after a failed one on the same adapter
C16_Witness ==
    /\ last.op = "Infer"
    /\ last.afterRejected
    /\ last.err = "none"
    /\ Ready(last.id)

-----------------------------------------------------------------------------
(* C17 *)

\* C17: the metadata an adapter holds is at all times the document computed
\* at its construction, whatever calls were made since, and a Metadata call
\* in the Ready state returns that document and no error.
C17_MetadataIsTheConstructionDocument ==
    /\ \A a \in AdapterIds :
          Built(a) => The(adapters[a]).metadata
                         = createMetadata(model.inputs, model.outputs,
                                          labelPath, platform)
    /\ (last.op = "Metadata" /\ Ready(last.id))
          => /\ last.err = "none"
             /\ last.md = Some(createMetadata(model.inputs, model.outputs,
                                               labelPath, platform))

\* Metadata has been called on an adapter that has served an Infer call
C17_Witness ==
    /\ last.op = "Metadata"
    /\ Ready(last.id)
    /\ served[last.id]
    /\ Len(The(last.md).Outputs) >= 1

-----------------------------------------------------------------------------
(* C18 *)

\* C18: in the metadata of every built adapter the extra data of each output
\* tensor is the configured label path under the key "labels", as
\* configured, the empty path included; no input tensor carries extra data;
\* and whether construction fails, and with which error, does not depend on
\* the label path (the file it names is never opened).
C18_LabelPathStoredVerbatim ==
    /\ \A a \in AdapterIds : Built(a) =>
          LET md == The(adapters[a]).metadata IN
          /\ \A i \in 1..Len(md.Outputs) :
                /\ md.Outputs[i].Extra # Nil
                /\ DOMAIN md.Outputs[i].Extra = {"labels"}
                /\ md.Outputs[i].Extra.labels = labelPath
          /\ \A i \in 1..Len(md.Inputs) : md.Inputs[i].Extra = Nil
    /\ \A lp \in LabelPaths, fail \in CtorFailures :
          initModel(platform, model, lp, envInitialized, fail).err
              = initModel(platform, model, labelPath, envInitialized, fail).err

\* an adapter with inputs and outputs has been built with an empty label path
C18_Witness ==
    /\ labelPath = ""
    /\ \E a \in AdapterIds :
          /\ Built(a)
          /\ Len(The(adapters[a]).metadata.Outputs) >= 1
          /\ Len(The(adapters[a]).metadata.Inputs) >= 1

-----------------------------------------------------------------------------
(* C20 *)

\* C20: on a platform outside the table of getSharedLibPath no adapter is
\* ever built and the environment is never initialized, and every
\* construction returns the unsupported-platform error, not the error of a
\* later step such as the query of the model file.
C20_UnsupportedPlatformFailsFirst ==
    platform \notin DOMAIN SharedLibs =>
        /\ \A a \in AdapterIds : ~Built(a)
        /\ ~envInitialized
        /\ last.op = "initModel" => last.err = "UnsupportedPlatform"

\* a construction has been attempted on a platform outside the table
C20_Witness ==
    /\ platform \notin DOMAIN SharedLibs
    /\ last.op = "initModel"
    /\ last.err = "UnsupportedPlatform"
    /\ ~envInitialized

-----------------------------------------------------------------------------
(* C19 *)

EndsWith(path, suffix) ==
    /\ Len(path) >= Len(suffix)
    /\ SubSeq(path, Len(path) - Len(suffix) + 1, Len(path)) = suffix

\* C19: Validate returns the field-required error exactly for the empty
\* model_path, returns no error exactly for the paths that end in ".onnx",
\* whatever the label path is, and rejects every other path for its
\* extension; and a Validate call leaves the environment, the adapters and
\* the tensor handles as they were.
C19_ValidateChecksModelPath ==
    /\ [](last.op = "Validate" =>
            /\ last.err = "FieldRequired" <=> modelPath = <<>>
            /\ last.err = "none" <=> EndsWith(modelPath, DotOnnx)
            /\ last.err \in {"FieldRequired", "BadExtension", "none"})
    /\ [][last'.op = "Validate"
            => UNCHANGED <<envInitialized, adapters, liveTensors>>]_vars

\* a path with a directory that ends in ".onnx" has been accepted, the label
\* path being empty
C19_Witness ==
    /\ last.op = "Validate"
    /\ last.err = "none"
    /\ Len(modelPath) > Len(DotOnnx)
    /\ modelPath[1] = "/"
    /\ labelPath = ""

-----------------------------------------------------------------------------
(* C23 *)

\* C23: the session is bound to the input names and to the output names of
\* the model in discovery order; the i-th input handle passed to Session.Run
\* wraps the caller's array stored under the i-th bound input name; and the
\* i-th output handle of Run backs the result stored under the i-th bound
\* output name.
C23_HandlesFollowBoundNames ==
    (last.op = "Infer" /\ last.ran) =>
        LET ses == sessionOf(last.id).Session
            ins == The(last.runInputs)
        IN  /\ ses.inputNames = [i \in 1..Len(model.inputs) |-> model.inputs[i].Name]
            /\ ses.outputNames = [i \in 1..Len(model.outputs) |-> model.outputs[i].Name]
            /\ Len(ins) = Len(ses.inputNames)
            /\ \A i \in 1..Len(ins) : ins[i].of = ses.inputNames[i]
            /\ last.err = "none" =>
                  \A i \in 1..Len(ses.outputNames) :
                      The(last.res)[ses.outputNames[i]].backing = i

\* an Infer call on a model with two inputs and two outputs has succeeded
C23_Witness ==
    /\ last.op = "Infer"
    /\ last.err = "none"
    /\ Len(The(last.runInputs)) = 2
    /\ Cardinality(DOMAIN The(last.res)) = 2

-----------------------------------------------------------------------------
(* C25 *)

\* C25: an Infer call invokes Session.Run at most once; when Run fails the
\* call returns the error of Run and no result, Run having been invoked
\* once.
C25_RunInvokedAtMostOnce ==
    last.op = "Infer" =>
        /\ last.runs <= 1
        /\ last.ran <=> last.runs = 1
        /\ last.err = "RunFailed" => (last.res = Nil /\ last.runs = 1)

\* an Infer call has returned the error of a failed Session.Run
C25_Witness ==
    /\ last.op = "Infer"
    /\ last.err = "RunFailed"
    /\ last.nativeError
    /\ last.res = Nil

-----------------------------------------------------------------------------
(* C26 *)

\* C26: what an Infer call returns, its error, the input it names and its
\* result, is what the call returns for the same map when no destroy of a
\* tensor handle fails: a failed cleanup changes nothing of it.
C26_CleanupFailureNotReturned ==
    last.op = "Infer" =>
        \E failAt \in 0..Len(sessionOf(last.id).InputInfo), runOk \in BOOLEAN :
            LET clean == Infer(The(adapters[last.id]), last.tensors, failAt,
                               runOk, FALSE, envInitialized)
            IN  /\ ~clean.cleanupFailed
                /\ clean.err = last.err
                /\ clean.name = last.name
                /\ clean.res = last.res

\* an Infer call has returned its result although the destroy of its tensor
\* handles failed
C26_Witness ==
    /\ last.op = "Infer"
    /\ last.cleanupFailed
    /\ last.err = "none"
    /\ last.res # Nil

-----------------------------------------------------------------------------
(* C28 *)

\* C28: no value of the result map of a successful Infer call is backed by
\* the buffer of an output handle that has been destroyed when the call
\* returns.
C28_ResultNotBackedByReleasedBuffer ==
    (last.op = "Infer" /\ last.err = "none") =>
        \A nm \in DOMAIN The(last.res) :
            The(last.res)[nm].backing \notin last.released

-----------------------------------------------------------------------------
(* C22 *)

\* errors of the steps of initModel that follow the environment check
AfterEnvironment ==
    {"GetInputOutputInfo", "UnsupportedInputType", "MixedInputTypes",
     "UnsupportedOutputType", "MixedOutputTypes", "NewSessionOptions",
     "NewDynamicAdvancedSession"}

\* C22: the environment is initialized whenever a construction has reached
\* the contract discovery or a later step, and whenever an adapter, so a
\* session, exists; and a construction that starts with the environment
\* initialized does not initialize it again: it returns neither the error of
\* InitializeEnvironment nor that of an environment already initialized, and
\* leaves the environment initialized.
C22_EnvironmentInitializedOnce ==
    /\ []((\E a \in AdapterIds : Built(a)) => envInitialized)
    /\ []((last.op = "initModel" /\ last.err \in AfterEnvironment)
              => envInitialized)
    /\ [][(last'.op = "initModel" /\ envInitialized)
              => /\ last'.err \notin {"InitializeEnvironment",
                                      "EnvironmentAlreadyInitialized"}
                 /\ envInitialized']_vars

\* a second adapter has been built after the first, the environment being
\* initialized by the first construction
C22_Witness ==
    /\ last.op = "initModel"
    /\ last.err = "none"
    /\ \A a \in AdapterIds : Built(a)
    /\ envInitialized

-----------------------------------------------------------------------------
(* C24 *)

\* C24: a construction that succeeds leaves the adapter with one live
\* session, and no Infer call, whatever it returns, opens, replaces or
\* destroys the session of any adapter: every Infer call of an adapter finds
\* the session the construction opened, as Close calls have left it.
C24_InferKeepsTheSession ==
    /\ []((last.op = "initModel" /\ last.err = "none")
              => /\ Built(last.id)
                 /\ sessionOf(last.id).Session.live
                 /\ sessionOf(last.id).Session.destroyCalls = 0)
    /\ [][last'.op = "Infer"
              => \A a \in AdapterIds :
                    Built(a) => /\ adapters'[a] # NoAdapter
                                /\ adapters'[a][1].session.Session
                                      = sessionOf(a).Session]_vars

\* an Infer call has run on the live session the construction opened
C24_Witness ==
    /\ last.op = "Infer"
    /\ last.ran
    /\ last.err = "none"
    /\ sessionOf(last.id).Session.live
    /\ sessionOf(last.id).Session.destroyCalls = 0

-----------------------------------------------------------------------------
(* C29 *)

\* C29: every adapter that initModel returns is bound to an input element
\* type and to an output element type in {uint8, float32}, and no Infer call
\* returns a type-not-implemented error.  Stated for model files that
\* declare an output and all of whose declared tensors have supported
\* element types, models with no inputs included.
C29_BoundTypesSupported ==
    (/\ typesOf(model.inputs) \cup typesOf(model.outputs) \subseteq Supported
     /\ Len(model.outputs) > 0) =>
        /\ \A a \in AdapterIds : Built(a) => Dispatchable(a)
        /\ last.op = "Infer" => last.err \notin {"InputTypeNotImplemented",
                                                  "OutputTypeNotImplemented"}

-----------------------------------------------------------------------------
(* C30 *)

\* C30: after an adapter that has served an Infer call was closed, the
\* construction of a new adapter for the same model succeeds (the native
\* calls reporting no error), the environment is initialized, and an Infer
\* call with a valid map on the new adapter succeeds (the native calls
\* reporting no error).
C30_AdapterCanBeRebuilt ==
    /\ (/\ last.op = "initModel"
        /\ \E b \in AdapterIds \ {last.id} : Closed(b) /\ served[b]
        /\ last.err \notin CtorFailures \ {"none"})
          => (last.err = "none" /\ Built(last.id) /\ envInitialized)
    /\ (/\ last.op = "Infer"
        /\ \E b \in AdapterIds \ {last.id} : Closed(b) /\ served[b]
        /\ Ready(last.id)
        /\ ValidMap(last.id, last.tensors)
        /\ ~last.nativeError) => (last.err = "none" /\ last.res # Nil)

\* a new adapter has been built after the one that served was closed
C30_Witness ==
    /\ last.op = "initModel"
    /\ last.err = "none"
    /\ Ready(last.id)
    /\ \E b \in AdapterIds \ {last.id} :
          Closed(b) /\ served[b] /\ ~sessionOf(b).Session.live

-----------------------------------------------------------------------------
(* C21 *)

\* C21: at no time are two Infer calls of one adapter inside Session.Run.
C21_InferCallsSerialized ==
    \A a \in AdapterIds : running[a] <= 1

-----------------------------------------------------------------------------
(* C27 *)

\* C27: Session.Run is not invoked on a session that Close has destroyed,
\* and no session is destroyed while an Infer call of its adapter is inside
\* Session.Run.
C27_RunAndCloseExcludeEachOther ==
    /\ last.op = "Session.Run" => sessionOf(last.id).Session.live
    /\ \A a \in AdapterIds :
          (Built(a) /\ running[a] > 0) => sessionOf(a).Session.live

====
